---- MODULE Spec2Model ----
(***************************************************************************)
(* Model of collectd's plugin core (src/plugin.c): the five callback       *)
(* registries, the lifecycle sweeps, the value dispatcher and the          *)
(* complaint limiter.                                                      *)
(***************************************************************************)
EXTENDS Integers, Sequences, FiniteSets, TLC

\* ---------------------------------------------------------------- bounds
NumNames == 2      \* distinct plugin / type names
MaxEntries == 2    \* entries held by all registries together (Spec, SpecSweep)
MaxCalls == 9      \* plugin_complain / plugin_relief calls on the call site
MaxDispatches == 2 \* plugin_dispatch_values calls made during one read sweep
MaxFiles == 2      \* entries of the plugin directory

\* ------------------------------------------------------ program constants
MaxInterval == 86400
BUFSIZE == 512

Names == 1..NumNames
\* Callbacks and data sets are opaque pointers: the code stores and calls
\* them and never looks inside.  cb_fail stands for a callback that reports
\* an error (a non-zero status), cb_ok for one that reports success.
Callbacks == {"cb_ok", "cb_fail"}
DataSets == {"ds_a", "ds_b"}
ValueLists == {"vl_a", "vl_b"}
Returns(callback) == IF callback = "cb_fail" THEN -1 ELSE 0
\* Values of COLLECTD_STEP; the last is INT_MAX.
Steps == {1, 10, 30000, 43200, MaxInterval, 100000, 2147483647}

VARIABLES
  list_init, list_read, list_write, list_shutdown, list_data_set,
  loop,      \* the Scheduler's cancellation flag (*loop in plugin_read_all)
  pc,        \* "idle", or the position inside a running plugin_read_all
  le,        \* plugin_read_all's cursor: index of the entry, 0 for NULL
  op,        \* the operation that ran last (or is running)
  args,      \* what it was called with
  ret,       \* its return value
  calls,     \* the callbacks it invoked, in order of invocation
  order,     \* per registry: names in order of first successful registration
  latest,    \* per registry and name: value of the last successful registration
  c,         \* the complain_t of one call site
  step,      \* atoi (COLLECTD_STEP)
  ncomplain, \* number of plugin_complain calls made
  nrelief,   \* number of plugin_relief calls made
  emitted,   \* whether the last limiter call wrote a message to syslog
  log,       \* the messages written to syslog so far
  quiet,     \* plugin_complain calls in a row that wrote no message
  ctx,       \* per execution context inside plugin_complain: its position
             \* and the values of c->delay (d) and c->interval (i) it holds
  race,      \* the complain_t when a pair of calls began (start), the
             \* messages the pair wrote (msgs), whether calls ever overlapped
  wle,       \* plugin_dispatch_values' cursor while a read callback runs it
  ndispatch, \* plugin_dispatch_values calls made so far in this read sweep
  trace,     \* the events of this read sweep, in the order they happened
  plugindir, \* the plugin directory: length of its path, whether opendir
             \* succeeds, its entries in readdir order
  loaded     \* the last plugin_load call: its type, the entries it handed
             \* to lt_dlopen and those whose module_register it called

lists == <<list_init, list_read, list_write, list_shutdown, list_data_set>>
run == <<loop, pc, le>>
last == <<op, args, ret, calls>>
ghost == <<order, latest>>
limiter == <<c, step, ncomplain, nrelief, emitted, log>>
aux == <<quiet, ctx, race, wle, ndispatch, trace, plugindir, loaded>>
delivery == <<wle, ndispatch, trace>>
loader == <<plugindir, loaded>>
vars == <<lists, run, last, ghost, limiter, aux>>

Registries == {"init", "read", "write", "shutdown", "data_set"}

\* The list of a registry.
List(reg) ==
  CASE reg = "init" -> list_init
    [] reg = "read" -> list_read
    [] reg = "write" -> list_write
    [] reg = "shutdown" -> list_shutdown
    [] reg = "data_set" -> list_data_set

\* ------------------------------------------------------------ utils_llist
\* A llist_t * is NULL or a list of entries; a llentry_t * is the index of
\* the entry in its list, 0 for NULL.
NULL == [isnull |-> TRUE, entries |-> <<>>]

llist_create == [isnull |-> FALSE, entries |-> <<>>]

llentry_create(key, value) == [key |-> key, value |-> value]

llist_append(l, e) == [l EXCEPT !.entries = Append(@, e)]

llist_search(l, key) ==
  IF \E i \in 1..Len(l.entries) : l.entries[i].key = key
  THEN CHOOSE i \in 1..Len(l.entries) :
         /\ l.entries[i].key = key
         /\ \A j \in 1..(i - 1) : l.entries[j].key # key
  ELSE 0

llist_head(l) == IF Len(l.entries) = 0 THEN 0 ELSE 1

le_next(l, e) == IF e < Len(l.entries) THEN e + 1 ELSE 0

\* ------------------------------------------------------- register_callback
\* A call that always appends: the search result is ignored.
register_callback_append(list, name, callback, fail) ==
  IF list.isnull /\ fail = "llist_create"
  THEN [list |-> list, ret |-> -1]
  ELSE LET l == IF list.isnull THEN llist_create ELSE list
       IN IF fail = "llentry_create"
          THEN [list |-> l, ret |-> -1]
          ELSE [list |-> llist_append(l, llentry_create(name, callback)),
                ret |-> 0]

\* A call that, for a name that is present, drops the entry and appends a
\* new one.
register_callback_reappend(list, name, callback, fail) ==
  IF list.isnull /\ fail = "llist_create"
  THEN [list |-> list, ret |-> -1]
  ELSE LET l == IF list.isnull THEN llist_create ELSE list
           rest == [l EXCEPT !.entries = SelectSeq(@, LAMBDA x : x.key # name)]
       IN IF fail = "llentry_create" /\ llist_search(l, name) = 0
          THEN [list |-> l, ret |-> -1]
          ELSE [list |-> llist_append(rest, llentry_create(name, callback)),
                ret |-> 0]

\* Returns the list as the call leaves it and the call's return value; fail
\* names the allocation that fails ("none": every allocation succeeds).
register_callback(list, name, callback, fail) ==
  IF list.isnull /\ fail = "llist_create"
  THEN [list |-> list, ret |-> -1]
  ELSE LET l == IF list.isnull THEN llist_create ELSE list
           e == llist_search(l, name)
       IN IF e = 0
          THEN IF fail = "llentry_create"
               THEN [list |-> l, ret |-> -1]
               ELSE [list |-> llist_append(l, llentry_create(name, callback)),
                     ret |-> 0]
          ELSE [list |-> [l EXCEPT !.entries[e].value = callback], ret |-> 0]

\* The allocations a register_callback call on this list and name makes.
Allocations(list, name) ==
  {"none"} \cup (IF list.isnull THEN {"llist_create"} ELSE {})
           \cup (IF llist_search(list, name) = 0 THEN {"llentry_create"} ELSE {})

NoArgs ==
  [name |-> 0, vl |-> "none", known |-> FALSE, same |-> FALSE, loop |-> 0]

\* What every plugin_register_* call leaves behind besides its list.
Registered(reg, list, name, callback, r) ==
  /\ op' = "register"
  /\ args' = LET e == llist_search(list, name)
              IN [NoArgs EXCEPT !.known = (e # 0),
                                !.same = (e # 0 /\ list.entries[e].value = callback)]
  /\ ret' = r.ret
  /\ calls' = <<>>
  /\ order' = IF r.ret = 0 /\ \A i \in 1..Len(order[reg]) : order[reg][i] # name
              THEN [order EXCEPT ![reg] = Append(@, name)]
              ELSE order
  /\ latest' = IF r.ret = 0
               THEN [latest EXCEPT ![reg][name] = callback]
               ELSE latest
  /\ UNCHANGED <<run, limiter>>

plugin_register_init ==
  /\ pc = "idle"
  /\ \E name \in Names, callback \in Callbacks :
     \E fail \in Allocations(list_init, name) :
       LET r == register_callback(list_init, name, callback, fail)
       IN /\ list_init' = r.list
          /\ Registered("init", list_init, name, callback, r)
  /\ UNCHANGED <<list_read, list_write, list_shutdown, list_data_set>>

\* A plugin_register_read that passes &list_init.
plugin_register_read_crossed ==
  /\ pc = "idle"
  /\ \E name \in Names, callback \in Callbacks :
     \E fail \in Allocations(list_init, name) :
       LET r == register_callback(list_init, name, callback, fail)
       IN /\ list_init' = r.list
          /\ Registered("read", list_init, name, callback, r)
  /\ UNCHANGED <<list_read, list_write, list_shutdown, list_data_set>>

plugin_register_read ==
  /\ pc = "idle"
  /\ \E name \in Names, callback \in Callbacks :
     \E fail \in Allocations(list_read, name) :
       LET r == register_callback(list_read, name, callback, fail)
       IN /\ list_read' = r.list
          /\ Registered("read", list_read, name, callback, r)
  /\ UNCHANGED <<list_init, list_write, list_shutdown, list_data_set>>

plugin_register_write ==
  /\ pc = "idle"
  /\ \E name \in Names, callback \in Callbacks :
     \E fail \in Allocations(list_write, name) :
       LET r == register_callback(list_write, name, callback, fail)
       IN /\ list_write' = r.list
          /\ Registered("write", list_write, name, callback, r)
  /\ UNCHANGED <<list_init, list_read, list_shutdown, list_data_set>>

plugin_register_shutdown ==
  /\ pc = "idle"
  /\ \E name \in Names, callback \in Callbacks :
     \E fail \in Allocations(list_shutdown, name) :
       LET r == register_callback(list_shutdown, name, callback, fail)
       IN /\ list_shutdown' = r.list
          /\ Registered("shutdown", list_shutdown, name, callback, r)
  /\ UNCHANGED <<list_init, list_read, list_write, list_data_set>>

\* ds->type is the key, the data_set_t itself the value.
plugin_register_data_set ==
  /\ pc = "idle"
  /\ \E type \in Names, ds \in DataSets :
     \E fail \in Allocations(list_data_set, type) :
       LET r == register_callback(list_data_set, type, ds, fail)
       IN /\ list_data_set' = r.list
          /\ Registered("data_set", list_data_set, type, ds, r)
  /\ UNCHANGED <<list_init, list_read, list_write, list_shutdown>>

\* ------------------------------------------------------- lifecycle sweeps
Call(callback, ds, vl) == [cb |-> callback, ds |-> ds, vl |-> vl]

\* The invocations of a while (le != NULL) walk that starts at entry e.
RECURSIVE walk(_, _, _, _)
walk(l, e, ds, vl) ==
  IF e = 0
  THEN <<>>
  ELSE <<Call(l.entries[e].value, ds, vl)>> \o walk(l, le_next(l, e), ds, vl)

\* A sweep that stops at the first callback that reports an error.
RECURSIVE walk_abort(_, _)
walk_abort(l, e) ==
  IF e = 0
  THEN <<>>
  ELSE <<Call(l.entries[e].value, "none", "none")>>
         \o (IF Returns(l.entries[e].value) # 0
             THEN <<>>
             ELSE walk_abort(l, le_next(l, e)))

plugin_init_all_abort(list) ==
  IF list.isnull THEN <<>> ELSE walk_abort(list, llist_head(list))

plugin_init_all(list) ==
  IF list.isnull THEN <<>> ELSE walk(list, llist_head(list), "none", "none")

plugin_shutdown_all(list) ==
  IF list.isnull THEN <<>> ELSE walk(list, llist_head(list), "none", "none")

InitAll ==
  /\ pc = "idle"
  /\ op' = "init_all" /\ args' = NoArgs /\ ret' = 0
  /\ calls' = plugin_init_all(list_init)
  /\ UNCHANGED <<lists, run, ghost, limiter>>

ShutdownAll ==
  /\ pc = "idle"
  /\ op' = "shutdown_all" /\ args' = NoArgs /\ ret' = 0
  /\ calls' = plugin_shutdown_all(list_shutdown)
  /\ UNCHANGED <<lists, run, ghost, limiter>>

\* A loop test that does not look at the flag.
read_continue_unchecked(flag, e) == e # 0

\* plugin_read_all runs callback by callback, so that the Scheduler can set
\* the flag in between and while a callback runs.  The loop test and the
\* call it guards are one step.
read_continue(flag, e) == (flag = 0) /\ (e # 0)

ReadAllEnter ==
  /\ pc = "idle"
  /\ op' = "read_all" /\ args' = [NoArgs EXCEPT !.loop = loop] /\ ret' = 0
  /\ calls' = <<>>
  /\ IF list_read.isnull
     THEN pc' = "idle" /\ le' = 0
     ELSE pc' = "read_loop" /\ le' = llist_head(list_read)
  /\ UNCHANGED <<lists, loop, ghost, limiter>>

ReadAllLoop ==
  /\ pc = "read_loop"
  /\ IF read_continue(loop, le)
     THEN /\ calls' = Append(calls, Call(list_read.entries[le].value, "none", "none"))
          /\ pc' = "read_callback"
     ELSE /\ calls' = calls
          /\ pc' = "idle"
  /\ UNCHANGED <<lists, loop, le, op, args, ret, ghost, limiter>>

ReadAllCallbackReturns ==
  /\ pc = "read_callback"
  /\ le' = le_next(list_read, le)
  /\ pc' = "read_loop"
  /\ UNCHANGED <<lists, loop, last, ghost, limiter>>

\* The Scheduler (a signal handler in the daemon) sets the flag at any moment.
SchedulerCancels ==
  /\ loop = 0
  /\ loop' = 1
  /\ UNCHANGED <<lists, pc, le, last, ghost, limiter>>

\* -------------------------------------------------- plugin_dispatch_values
\* A dispatcher that does not test the result of the schema lookup.
plugin_dispatch_values_unchecked(lw, lds, name, vl) ==
  IF lw.isnull
  THEN [ret |-> -1, calls |-> <<>>]
  ELSE LET e == llist_search(lds, name)
           ds == IF e = 0 THEN "none" ELSE lds.entries[e].value
       IN [ret |-> 0, calls |-> walk(lw, llist_head(lw), ds, vl)]

\* A dispatcher that returns after the first writer.
plugin_dispatch_values_first(lw, lds, name, vl) ==
  IF lw.isnull
  THEN [ret |-> -1, calls |-> <<>>]
  ELSE LET e == llist_search(lds, name)
       IN IF e = 0
          THEN [ret |-> -1, calls |-> <<>>]
          ELSE [ret |-> 0,
                calls |-> IF llist_head(lw) = 0
                          THEN <<>>
                          ELSE <<Call(lw.entries[llist_head(lw)].value,
                                      lds.entries[e].value, vl)>>]

\* A dispatcher that gives up, and reports failure, at the first writer that
\* reports an error.
RECURSIVE walk_until_error(_, _, _, _)
walk_until_error(l, e, ds, vl) ==
  IF e = 0
  THEN <<>>
  ELSE <<Call(l.entries[e].value, ds, vl)>>
         \o (IF Returns(l.entries[e].value) # 0
             THEN <<>>
             ELSE walk_until_error(l, le_next(l, e), ds, vl))

plugin_dispatch_values_abort(lw, lds, name, vl) ==
  IF lw.isnull
  THEN [ret |-> -1, calls |-> <<>>]
  ELSE LET e == llist_search(lds, name)
           done == IF e = 0
                   THEN <<>>
                   ELSE walk_until_error(lw, llist_head(lw),
                                         lds.entries[e].value, vl)
       IN IF e = 0
          THEN [ret |-> -1, calls |-> <<>>]
          ELSE [ret |-> IF \E i \in 1..Len(done) : Returns(done[i].cb) # 0
                        THEN -1 ELSE 0,
                calls |-> done]

plugin_dispatch_values(lw, lds, name, vl) ==
  IF lw.isnull
  THEN [ret |-> -1, calls |-> <<>>]
  ELSE LET e == llist_search(lds, name)
       IN IF e = 0
          THEN [ret |-> -1, calls |-> <<>>]
          ELSE [ret |-> 0,
                calls |-> walk(lw, llist_head(lw), lds.entries[e].value, vl)]

DispatchValues ==
  /\ pc = "idle"
  /\ \E name \in Names, vl \in ValueLists :
       LET r == plugin_dispatch_values(list_write, list_data_set, name, vl)
       IN /\ op' = "dispatch"
          /\ args' = [NoArgs EXCEPT !.name = name, !.vl = vl]
          /\ ret' = r.ret
          /\ calls' = r.calls
  /\ UNCHANGED <<lists, run, ghost, limiter>>

\* ------------------------------------------------------- complaint limiter
\* c->interval *= 2 on a 32 bit int.
times_two(x) ==
  IF x > 1073741823 THEN (x - 1073741824) * 2 - 2147483647 - 1 ELSE x * 2

\* A limiter that grows the interval by one step instead of doubling it.
plugin_complain_linear(cs, st) ==
  IF cs.delay > 0
  THEN [c |-> [cs EXCEPT !.delay = @ - 1], emit |-> FALSE]
  ELSE LET grown == IF cs.interval < st THEN st ELSE cs.interval + st
           interval == IF grown > MaxInterval THEN MaxInterval ELSE grown
       IN [c |-> [interval |-> interval, delay |-> interval \div st],
           emit |-> TRUE]

\* A limiter without the ceiling.
plugin_complain_unclamped(cs, st) ==
  IF cs.delay > 0
  THEN [c |-> [cs EXCEPT !.delay = @ - 1], emit |-> FALSE]
  ELSE LET grown == IF cs.interval < st THEN st ELSE times_two(cs.interval)
       IN [c |-> [interval |-> grown, delay |-> grown \div st], emit |-> TRUE]

\* A limiter that tests delay >= 0.
plugin_complain_offbyone(cs, st) ==
  IF cs.delay >= 0
  THEN [c |-> [cs EXCEPT !.delay = @ - 1], emit |-> FALSE]
  ELSE LET grown == IF cs.interval < st THEN st ELSE times_two(cs.interval)
           interval == IF grown > MaxInterval THEN MaxInterval ELSE grown
       IN [c |-> [interval |-> interval, delay |-> interval \div st],
           emit |-> TRUE]

\* A limiter that derives delay from the interval before clamping it.
plugin_complain_lateclamp(cs, st) ==
  IF cs.delay > 0
  THEN [c |-> [cs EXCEPT !.delay = @ - 1], emit |-> FALSE]
  ELSE LET grown == IF cs.interval < st THEN st ELSE times_two(cs.interval)
           interval == IF grown > MaxInterval THEN MaxInterval ELSE grown
       IN [c |-> [interval |-> interval, delay |-> grown \div st],
           emit |-> TRUE]

plugin_complain(cs, st) ==
  IF cs.delay > 0
  THEN [c |-> [cs EXCEPT !.delay = @ - 1], emit |-> FALSE]
  ELSE LET grown == IF cs.interval < st THEN st ELSE times_two(cs.interval)
           interval == IF grown > MaxInterval THEN MaxInterval ELSE grown
       IN [c |-> [interval |-> interval, delay |-> interval \div st],
           emit |-> TRUE]

\* A relief that does not test the interval.
plugin_relief_always(cs) == [c |-> [cs EXCEPT !.interval = 0], emit |-> TRUE]

\* A relief that writes its message and leaves the interval as it is.
plugin_relief_keep(cs) ==
  IF cs.interval = 0
  THEN [c |-> cs, emit |-> FALSE]
  ELSE [c |-> cs, emit |-> TRUE]

plugin_relief(cs) ==
  IF cs.interval = 0
  THEN [c |-> cs, emit |-> FALSE]
  ELSE [c |-> [cs EXCEPT !.interval = 0], emit |-> TRUE]

Message(what, r) ==
  [op |-> what, n |-> ncomplain + nrelief,
   interval |-> r.c.interval, delay |-> r.c.delay]

Complain ==
  /\ ncomplain + nrelief < MaxCalls
  /\ LET r == plugin_complain(c, step)
     IN /\ c' = r.c
        /\ emitted' = r.emit
        /\ log' = IF r.emit THEN Append(log, Message("complain", r)) ELSE log
  /\ op' = "complain"
  /\ ncomplain' = ncomplain + 1
  /\ UNCHANGED <<lists, run, args, ret, calls, ghost, step, nrelief>>

Relief ==
  /\ ncomplain + nrelief < MaxCalls
  /\ LET r == plugin_relief(c)
     IN /\ c' = r.c
        /\ emitted' = r.emit
        /\ log' = IF r.emit THEN Append(log, Message("relief", r)) ELSE log
  /\ op' = "relief"
  /\ nrelief' = nrelief + 1
  /\ UNCHANGED <<lists, run, args, ret, calls, ghost, step, ncomplain>>

\* The same two calls made without end: no call counter and no log, so that
\* the state space stays finite; quiet counts the suppressed calls since the
\* last message of plugin_complain.
ComplainAgain ==
  /\ LET r == plugin_complain(c, step)
     IN /\ c' = r.c
        /\ emitted' = r.emit
        /\ quiet' = IF r.emit THEN 0 ELSE quiet + 1
  /\ op' = "complain"
  /\ UNCHANGED <<lists, run, args, ret, calls, ghost>>
  /\ UNCHANGED <<step, ncomplain, nrelief, log, ctx, race, delivery, loader>>

ReliefAgain ==
  /\ LET r == plugin_relief(c)
     IN /\ c' = r.c
        /\ emitted' = r.emit
  /\ op' = "relief"
  /\ UNCHANGED <<lists, run, args, ret, calls, ghost>>
  /\ UNCHANGED <<step, ncomplain, nrelief, log, quiet, ctx, race, delivery, loader>>

\* ------------------------------------------------------------ plugin_load
\* File names and types are strings of characters; a directory entry is a
\* name and what the file is: "gone" (lstat fails), "dir" (not a regular
\* file), "text" (lt_dlopen fails), "bare" (a shared object without
\* module_register) or "module".
tolower(ch) ==
  CASE ch = "A" -> "a"
    [] ch = "S" -> "s"
    [] ch = "O" -> "o"
    [] OTHER -> ch

\* The i-th character of a C string; the terminating NUL after its end.
CharAt(str, i) == IF i <= Len(str) THEN str[i] ELSE "NUL"

\* 0 if the first n characters agree without regard to case.
strncasecmp(s1, s2, n) ==
  IF \A i \in 1..n : tolower(CharAt(s1, i)) = tolower(CharAt(s2, i))
  THEN 0
  ELSE 1

lstat(de) == IF de.kind = "gone" THEN -1 ELSE 0
S_ISREG(de) == de.kind \in {"text", "bare", "module"}

\* The return value, and whether module_register was called.
plugin_load_file(de) ==
  IF de.kind \notin {"bare", "module"}
  THEN [ret |-> 1, invoked |-> FALSE]
  ELSE IF de.kind # "module"
       THEN [ret |-> -1, invoked |-> FALSE]
       ELSE [ret |-> 0, invoked |-> TRUE]

\* A loop over the directory that goes on after a successful load.
RECURSIVE readdir_loop_nobreak(_, _, _, _)
readdir_loop_nobreak(entries, i, typename, dirlen) ==
  IF i > Len(entries)
  THEN [ret |-> 1, opened |-> <<>>, invoked |-> <<>>]
  ELSE LET de == entries[i]
           rest == readdir_loop_nobreak(entries, i + 1, typename, dirlen)
       IN IF strncasecmp(de.name, typename, Len(typename)) # 0
          THEN rest
          ELSE IF dirlen + 1 + Len(de.name) >= BUFSIZE
          THEN rest
          ELSE IF lstat(de) = -1 \/ ~S_ISREG(de)
          THEN rest
          ELSE IF plugin_load_file(de).ret = 0
          THEN [ret |-> 0, opened |-> <<i>> \o rest.opened,
                invoked |-> <<i>> \o rest.invoked]
          ELSE [rest EXCEPT !.opened = <<i>> \o @]

\* while ((de = readdir (dh)) != NULL), from the i-th entry on: the value
\* of ret at the end, the entries handed to plugin_load_file and the
\* entries whose module_register was called.
RECURSIVE readdir_loop(_, _, _, _)
readdir_loop(entries, i, typename, dirlen) ==
  IF i > Len(entries)
  THEN [ret |-> 1, opened |-> <<>>, invoked |-> <<>>]
  ELSE LET de == entries[i]
           rest == readdir_loop(entries, i + 1, typename, dirlen)
       IN IF strncasecmp(de.name, typename, Len(typename)) # 0
          THEN rest
          ELSE IF dirlen + 1 + Len(de.name) >= BUFSIZE
          THEN rest
          ELSE IF lstat(de) = -1 \/ ~S_ISREG(de)
          THEN rest
          ELSE IF plugin_load_file(de).ret = 0
          THEN [ret |-> 0, opened |-> <<i>>, invoked |-> <<i>>]
          ELSE [rest EXCEPT !.opened = <<i>> \o @]

plugin_load(type, dir) ==
  IF Len(type) + 3 >= BUFSIZE
  THEN [ret |-> -1, opened |-> <<>>, invoked |-> <<>>]
  ELSE IF ~dir.ok
  THEN [ret |-> -1, opened |-> <<>>, invoked |-> <<>>]
  ELSE readdir_loop(dir.entries, 1, type \o <<".", "s", "o">>, dir.len)

\* The types asked for: "a", "ab" and one of 509 characters.
Types == {<<"a">>, <<"a", "b">>, [i \in 1..(BUFSIZE - 3) |-> "a"]}

PluginLoad ==
  /\ pc = "idle"
  /\ \E type \in Types :
       LET r == plugin_load(type, plugindir)
       IN /\ ret' = r.ret
          /\ loaded' = [type |-> type, opened |-> r.opened,
                        invoked |-> r.invoked]
  /\ op' = "load" /\ args' = NoArgs /\ calls' = <<>>
  /\ UNCHANGED <<lists, run, ghost, limiter, plugindir>>
  /\ UNCHANGED <<quiet, ctx, race, delivery>>

\* ------------------------------- plugin_dispatch_values inside a read sweep
\* A read callback calls plugin_dispatch_values any number of times before
\* it returns.  The dispatch runs on the read sweep's own stack: pc moves
\* from "read_callback" into the dispatch and back.  The value list plays no
\* part in the control flow and is left out.
Event(ev, n, who) == [ev |-> ev, n |-> n, who |-> who]

Reader == list_read.entries[le].key
Writer == list_write.entries[wle].key

\* plugin_read_all with its events.
SweepEnter ==
  /\ ReadAllEnter
  /\ trace' = <<>> /\ ndispatch' = 0
  /\ UNCHANGED <<loader, quiet, ctx, race, wle>>

SweepLoop ==
  /\ ReadAllLoop
  /\ trace' = IF read_continue(loop, le)
              THEN Append(trace, Event("read_begin", 0, Reader))
              ELSE trace
  /\ UNCHANGED <<loader, quiet, ctx, race, wle, ndispatch>>

SweepCallbackReturns ==
  /\ ReadAllCallbackReturns
  /\ trace' = Append(trace, Event("read_end", 0, Reader))
  /\ UNCHANGED <<loader, quiet, ctx, race, wle, ndispatch>>

\* The running read callback enters plugin_dispatch_values; without a
\* writer list or a data set of the type it is back at once.
DispatchEnter ==
  /\ pc = "read_callback"
  /\ ndispatch < MaxDispatches
  /\ ndispatch' = ndispatch + 1
  /\ \E name \in Names :
       IF list_write.isnull \/ llist_search(list_data_set, name) = 0
       THEN /\ trace' = trace \o <<Event("dispatch", ndispatch + 1, Reader),
                                  Event("dispatch_failed", ndispatch + 1, Reader)>>
            /\ pc' = "read_callback" /\ wle' = 0
       ELSE /\ trace' = Append(trace, Event("dispatch", ndispatch + 1, Reader))
            /\ pc' = "write_loop" /\ wle' = llist_head(list_write)
  /\ UNCHANGED <<lists, loop, le, last, ghost, limiter, loader, quiet, ctx, race>>

\* A dispatcher that leaves the writers for later and returns.
WriteLoop_deferred ==
  /\ pc = "write_loop"
  /\ trace' = Append(trace, Event("dispatch_done", ndispatch, Reader))
  /\ pc' = "read_callback" /\ wle' = wle
  /\ UNCHANGED <<lists, loop, le, last, ghost, limiter, loader, quiet, ctx, race>>
  /\ UNCHANGED ndispatch

\* while (le != NULL): call the writer, or return 0 to the read callback.
WriteLoop ==
  /\ pc = "write_loop"
  /\ IF wle # 0
     THEN /\ trace' = Append(trace, Event("write_begin", ndispatch, Writer))
          /\ pc' = "write_callback" /\ wle' = wle
     ELSE /\ trace' = Append(trace, Event("dispatch_done", ndispatch, Reader))
          /\ pc' = "read_callback" /\ wle' = 0
  /\ UNCHANGED <<lists, loop, le, last, ghost, limiter, loader, quiet, ctx, race>>
  /\ UNCHANGED ndispatch

\* The writer returns; le = le->next.
WriteCallbackReturns ==
  /\ pc = "write_callback"
  /\ trace' = Append(trace, Event("write_end", ndispatch, Writer))
  /\ wle' = le_next(list_write, wle)
  /\ pc' = "write_loop"
  /\ UNCHANGED <<lists, loop, le, last, ghost, limiter, loader, quiet, ctx, race>>
  /\ UNCHANGED ndispatch

\* ------------------------------------------- plugin_complain, access by access
\* Two execution contexts inside plugin_complain on the same complain_t.
\* Every load and store of c->delay and c->interval is a step of its own.
\* The accesses are unsynchronised, so where the code mentions a field
\* again the build may load it again or use the value it already holds:
\* the Load steps choose between the two.
Contexts == {1, 2}

Idle == [pc |-> "idle", d |-> 0, i |-> 0]
Done == [pc |-> "done", d |-> 0, i |-> 0]

Quiescent == \A t \in Contexts : ctx[t].pc = "idle"

Goto(t, label, d, i) ==
  ctx' = [ctx EXCEPT ![t] = [pc |-> label, d |-> d, i |-> i]]

Untouched ==
  <<lists, run, last, ghost, step, ncomplain, nrelief, emitted, log, delivery,
    loader>>

\* The call begins.
ComplainEnter(t) ==
  /\ ctx[t].pc = "idle"
  /\ Goto(t, "test", 0, 0)
  /\ race' = IF \A u \in Contexts : ctx[u].pc = "idle"
             THEN [start |-> c, msgs |-> 0, overlap |-> race.overlap]
             ELSE IF \A u \in Contexts \ {t} : ctx[u].pc = "done"
             THEN race
             ELSE [race EXCEPT !.overlap = TRUE]
  /\ UNCHANGED <<Untouched, c, quiet>>

\* if (c->delay > 0)
TestDelay(t) ==
  /\ ctx[t].pc = "test"
  /\ Goto(t, IF c.delay > 0 THEN "dec_load" ELSE "grow_test", c.delay, 0)
  /\ UNCHANGED <<Untouched, c, quiet, race>>

\* c->delay--, the load
DecrementLoad(t) ==
  /\ ctx[t].pc = "dec_load"
  /\ \E v \in {ctx[t].d, c.delay} : Goto(t, "dec_store", v, 0)
  /\ UNCHANGED <<Untouched, c, quiet, race>>

\* A store that takes two off.
DecrementStore_twice(t) ==
  /\ ctx[t].pc = "dec_store"
  /\ c' = [c EXCEPT !.delay = ctx[t].d - 2]
  /\ quiet' = quiet + 1
  /\ ctx' = [ctx EXCEPT ![t] = Done]
  /\ UNCHANGED <<Untouched, race>>

\* c->delay--, the store; return
DecrementStore(t) ==
  /\ ctx[t].pc = "dec_store"
  /\ c' = [c EXCEPT !.delay = ctx[t].d - 1]
  /\ quiet' = quiet + 1
  /\ ctx' = [ctx EXCEPT ![t] = Done]
  /\ UNCHANGED <<Untouched, race>>

\* if (c->interval < step)
GrowTest(t) ==
  /\ ctx[t].pc = "grow_test"
  /\ Goto(t, IF c.interval < step THEN "grow_store" ELSE "grow_load",
          0, c.interval)
  /\ UNCHANGED <<Untouched, c, quiet, race>>

\* c->interval *= 2, the load
GrowLoad(t) ==
  /\ ctx[t].pc = "grow_load"
  /\ \E v \in {ctx[t].i, c.interval} : Goto(t, "grow_store", 0, v)
  /\ UNCHANGED <<Untouched, c, quiet, race>>

\* c->interval = step, or c->interval *= 2, the store
GrowStore(t) ==
  /\ ctx[t].pc = "grow_store"
  /\ LET v == IF ctx[t].i < step THEN step ELSE times_two(ctx[t].i)
     IN /\ c' = [c EXCEPT !.interval = v]
        /\ Goto(t, "clamp_load", 0, v)
  /\ UNCHANGED <<Untouched, quiet, race>>

\* if (c->interval > 86400)
ClampLoad(t) ==
  /\ ctx[t].pc = "clamp_load"
  /\ \E v \in {ctx[t].i, c.interval} :
       Goto(t, IF v > MaxInterval THEN "clamp_store" ELSE "delay_load", 0, v)
  /\ UNCHANGED <<Untouched, c, quiet, race>>

\* c->interval = 86400
ClampStore(t) ==
  /\ ctx[t].pc = "clamp_store"
  /\ c' = [c EXCEPT !.interval = MaxInterval]
  /\ Goto(t, "delay_load", 0, MaxInterval)
  /\ UNCHANGED <<Untouched, quiet, race>>

\* c->delay = c->interval / step, the load
DelayLoad(t) ==
  /\ ctx[t].pc = "delay_load"
  /\ \E v \in {ctx[t].i, c.interval} : Goto(t, "delay_store", 0, v)
  /\ UNCHANGED <<Untouched, c, quiet, race>>

\* c->delay = c->interval / step, the store
DelayStore(t) ==
  /\ ctx[t].pc = "delay_store"
  /\ c' = [c EXCEPT !.delay = ctx[t].i \div step]
  /\ Goto(t, "syslog", 0, 0)
  /\ UNCHANGED <<Untouched, quiet, race>>

\* syslog (level, message); return
Syslog(t) ==
  /\ ctx[t].pc = "syslog"
  /\ race' = [race EXCEPT !.msgs = @ + 1]
  /\ quiet' = 0
  /\ ctx' = [ctx EXCEPT ![t] = Done]
  /\ UNCHANGED <<Untouched, c>>

\* Both contexts are back at their callers.
Rejoin ==
  /\ \A t \in Contexts : ctx[t].pc = "done"
  /\ ctx' = [t \in Contexts |-> Idle]
  /\ UNCHANGED <<Untouched, c, quiet, race>>

\* ---------------------------------------------------------- specifications
TotalEntries ==
  Len(list_init.entries) + Len(list_read.entries) + Len(list_write.entries)
    + Len(list_shutdown.entries) + Len(list_data_set.entries)

Bounded == TotalEntries' <= MaxEntries

InitCore ==
  /\ list_init = NULL /\ list_read = NULL /\ list_write = NULL
  /\ list_shutdown = NULL /\ list_data_set = NULL
  /\ loop = 0 /\ pc = "idle" /\ le = 0
  /\ op = "none" /\ args = NoArgs /\ ret = 0 /\ calls = <<>>
  /\ order = [r \in Registries |-> <<>>]
  /\ latest = [r \in Registries |-> [n \in Names |-> "none"]]
  /\ c = [interval |-> 0, delay |-> 0]
  /\ ncomplain = 0 /\ nrelief = 0 /\ emitted = FALSE /\ log = <<>>

InitHistories ==
  /\ quiet = 0
  /\ ctx = [t \in Contexts |-> Idle]
  /\ race = [start |-> [interval |-> 0, delay |-> 0], msgs |-> 0,
             overlap |-> FALSE]
  /\ wle = 0 /\ ndispatch = 0 /\ trace = <<>>
  /\ loaded = [type |-> <<>>, opened |-> <<>>, invoked |-> <<>>]

InitAux ==
  /\ InitHistories
  /\ plugindir = [len |-> 1, ok |-> TRUE, entries |-> <<>>]

Init == InitCore /\ InitAux /\ step = 10

\* Registration into the five registries.
Next ==
  \/ plugin_register_init /\ Bounded /\ UNCHANGED aux
  \/ plugin_register_read /\ Bounded /\ UNCHANGED aux
  \/ plugin_register_write /\ Bounded /\ UNCHANGED aux
  \/ plugin_register_shutdown /\ Bounded /\ UNCHANGED aux
  \/ plugin_register_data_set /\ Bounded /\ UNCHANGED aux

Spec == Init /\ [][Next]_vars

\* Writers, data sets and the dispatcher.
NextDispatch ==
  \/ plugin_register_write /\ UNCHANGED aux
  \/ plugin_register_data_set /\ UNCHANGED aux
  \/ DispatchValues /\ UNCHANGED aux

SpecDispatch == Init /\ [][NextDispatch]_vars

\* The lifecycle runner and the Scheduler.
NextSweep ==
  \/ plugin_register_init /\ Bounded /\ UNCHANGED aux
  \/ plugin_register_read /\ Bounded /\ UNCHANGED aux
  \/ plugin_register_shutdown /\ Bounded /\ UNCHANGED aux
  \/ InitAll /\ UNCHANGED aux
  \/ ReadAllEnter /\ UNCHANGED aux
  \/ ReadAllLoop /\ UNCHANGED aux
  \/ ReadAllCallbackReturns /\ UNCHANGED aux
  \/ ShutdownAll /\ UNCHANGED aux
  \/ SchedulerCancels /\ UNCHANGED aux

SpecSweep == Init /\ [][NextSweep]_vars

\* One call site of the complaint limiter, for every value of COLLECTD_STEP.
InitComplain == InitCore /\ InitAux /\ step \in Steps

NextComplain ==
  \/ Complain /\ UNCHANGED aux
  \/ Relief /\ UNCHANGED aux

SpecComplain == InitComplain /\ [][NextComplain]_vars

\* A call site on which plugin_complain is called again and again, with
\* plugin_relief calls in between at will.
LongSteps == {1000, 10800, 30000, 43200, MaxInterval, 100000}

InitAgain == InitCore /\ InitAux /\ step \in LongSteps

NextAgain ==
  \/ ComplainAgain
  \/ ReliefAgain

SpecAgain == InitAgain /\ [][NextAgain]_vars /\ WF_vars(ComplainAgain)

\* Two contexts that share a call site: whole calls while both are outside
\* the limiter, then one plugin_complain call each, interleaved at will.
InitShared == InitCore /\ InitAux /\ step = 10800

NextShared ==
  \/ ComplainAgain /\ Quiescent
  \/ ReliefAgain /\ Quiescent
  \/ \E t \in Contexts : ComplainEnter(t)
  \/ \E t \in Contexts : TestDelay(t)
  \/ \E t \in Contexts : DecrementLoad(t)
  \/ \E t \in Contexts : DecrementStore(t)
  \/ \E t \in Contexts : GrowTest(t)
  \/ \E t \in Contexts : GrowLoad(t)
  \/ \E t \in Contexts : GrowStore(t)
  \/ \E t \in Contexts : ClampLoad(t)
  \/ \E t \in Contexts : ClampStore(t)
  \/ \E t \in Contexts : DelayLoad(t)
  \/ \E t \in Contexts : DelayStore(t)
  \/ \E t \in Contexts : Syslog(t)
  \/ Rejoin

SpecShared == InitShared /\ [][NextShared]_vars

\* A read sweep whose callbacks dispatch values.  The registries hold what
\* earlier registrations of the names 1..n left in them.
RECURSIVE Populated(_)
Populated(n) ==
  IF n = 0
  THEN NULL
  ELSE register_callback(Populated(n - 1), n, "cb_ok", "none").list

InitDelivery ==
  /\ list_init = NULL /\ list_shutdown = NULL
  /\ \E n \in 0..NumNames : list_read = Populated(n)
  /\ \E n \in 0..NumNames : list_write = Populated(n)
  /\ \E n \in 0..NumNames : list_data_set = Populated(n)
  /\ loop = 0 /\ pc = "idle" /\ le = 0
  /\ op = "none" /\ args = NoArgs /\ ret = 0 /\ calls = <<>>
  /\ order = [r \in Registries |->
               [i \in 1..Len(List(r).entries) |-> List(r).entries[i].key]]
  /\ latest = [r \in Registries |->
                [n \in Names |-> IF n <= Len(List(r).entries)
                                 THEN "cb_ok" ELSE "none"]]
  /\ c = [interval |-> 0, delay |-> 0] /\ step = 10
  /\ ncomplain = 0 /\ nrelief = 0 /\ emitted = FALSE /\ log = <<>>
  /\ InitAux

NextDelivery ==
  \/ SweepEnter
  \/ SweepLoop
  \/ SweepCallbackReturns
  \/ DispatchEnter
  \/ WriteLoop
  \/ WriteCallbackReturns
  \/ SchedulerCancels /\ UNCHANGED aux

SpecDelivery == InitDelivery /\ [][NextDelivery]_vars

\* plugin_load on every plugin directory of up to MaxFiles entries.
FileNames ==
  { <<"a", ".", "s", "o">>, <<"A", ".", "S", "O">>,
    <<"a", ".", "s", "o", ".", "x">>, <<"a", "b", ".", "s", "o">>,
    <<"a", ".", "s">> }
FileKinds == {"gone", "dir", "text", "bare", "module"}
DirEntries == [name : FileNames, kind : FileKinds]
PathLengths == {1, BUFSIZE - 6}

InitLoad ==
  /\ InitCore /\ InitHistories /\ step = 10
  /\ \E n \in 0..MaxFiles :
       plugindir \in [len : PathLengths, ok : BOOLEAN,
                      entries : [1..n -> DirEntries]]

NextLoad ==
  \/ PluginLoad

SpecLoad == InitLoad /\ [][NextLoad]_vars

\* ------------------------------------------------------------------ claims
Keys(l) == [i \in 1..Len(l.entries) |-> l.entries[i].key]
Values(l) == [i \in 1..Len(l.entries) |-> l.entries[i].value]

\* C1: in each of the five registries every name occurs in at most one
\* entry; the entries stand in the order in which their names were first
\* registered, whatever was registered again since, and each entry holds the
\* value most recently registered under its name; a registration of a name
\* that is present succeeds.
C1_OneEntryPerName ==
  /\ \A reg \in Registries :
       LET l == List(reg)
       IN /\ \A i, j \in 1..Len(l.entries) :
               l.entries[i].key = l.entries[j].key => i = j
          /\ Keys(l) = order[reg]
          /\ \A i \in 1..Len(l.entries) :
               l.entries[i].value = latest[reg][l.entries[i].key]
  /\ (op = "register" /\ args.known) => ret = 0

\* A name registered again in a registry that holds two entries with
\* different callbacks, the other registries untouched.
C1_Witness ==
  /\ op = "register" /\ args.known /\ ret = 0
  /\ Keys(list_read) = <<1, 2>>
  /\ Values(list_read) = <<"cb_fail", "cb_ok">>
  /\ list_init.isnull /\ list_write.isnull
  /\ list_shutdown.isnull /\ list_data_set.isnull

\* C2: a dispatch made while no write callback has been registered (every
\* attempt so far, if any, failed) returns failure and invokes no callback,
\* whether or not a schema is registered for the type.
C2_NoWriterFails ==
  (op = "dispatch" /\ order["write"] = <<>>) => (ret = -1 /\ calls = <<>>)

\* C3: a dispatch made while a write callback is registered and no schema is
\* registered for the type returns failure and invokes no write callback.
C3_NoSchemaFails ==
  (/\ op = "dispatch"
   /\ order["write"] # <<>>
   /\ latest["data_set"][args.name] = "none")
  => (ret = -1 /\ calls = <<>>)

\* Two writers, a schema for the other type only.
C3_Witness ==
  /\ op = "dispatch"
  /\ Len(order["write"]) = 2
  /\ latest["data_set"][args.name] = "none"
  /\ order["data_set"] # <<>>

\* C4: a dispatch made while a write callback and a schema for the type are
\* registered invokes one callback per registered writer name, in the order
\* in which the names were first registered, each with the schema registered
\* last for the type and with the caller's value list.
C4_EveryWriterOnce ==
  (/\ op = "dispatch"
   /\ order["write"] # <<>>
   /\ latest["data_set"][args.name] # "none")
  => /\ Len(calls) = Len(order["write"])
     /\ \A i \in 1..Len(calls) :
          calls[i] = Call(latest["write"][order["write"][i]],
                          latest["data_set"][args.name], args.vl)

\* Two writers, the second name registered first, and two schemas.
C4_Witness ==
  /\ op = "dispatch" /\ ret = 0
  /\ order["write"] = <<2, 1>>
  /\ Len(order["data_set"]) = 2
  /\ Len(calls) = 2
  /\ calls[1].cb # calls[2].cb

Min(a, b) == IF a < b THEN a ELSE b

\* C5: with a step of at most 86400 and only plugin_complain calls on a
\* zeroed state, the first call emits with interval = step and delay = 1;
\* after an emission that set delay = d the next d calls are suppressed and
\* the call after them emits with interval = min(2 * previous interval,
\* 86400) and delay = interval / step; for step 10 the first emissions are
\* calls 0, 2, 5 with (interval, delay) = (10,1), (20,2), (40,4).
C5_Backoff ==
  (nrelief = 0 /\ step <= MaxInterval /\ ncomplain > 0) =>
    LET n == Len(log)
        since == ncomplain - 1 - log[n].n
    IN /\ n > 0
       /\ log[1] = [op |-> "complain", n |-> 0, interval |-> step, delay |-> 1]
       /\ \A k \in 1..(n - 1) :
            /\ log[k + 1].n = log[k].n + log[k].delay + 1
            /\ log[k + 1].interval = Min(2 * log[k].interval, MaxInterval)
            /\ log[k + 1].delay = log[k + 1].interval \div step
       /\ since \in 0..log[n].delay
       /\ emitted = (since = 0)
       /\ c = [interval |-> log[n].interval, delay |-> log[n].delay - since]
       /\ (step = 10 /\ n >= 3) =>
            /\ <<log[1].n, log[1].interval, log[1].delay>> = <<0, 10, 1>>
            /\ <<log[2].n, log[2].interval, log[2].delay>> = <<2, 20, 2>>
            /\ <<log[3].n, log[3].interval, log[3].delay>> = <<5, 40, 4>>

\* Step 10, three emissions and then a suppressed call.
C5_Witness ==
  /\ step = 10 /\ nrelief = 0 /\ Len(log) = 3 /\ ~emitted /\ ncomplain = 7

\* C6: for every positive step and every interleaving of plugin_complain and
\* plugin_relief, interval lies in 0..86400 after every call, and doubling
\* it stays within a 32 bit signed integer.
C6_IntervalRange ==
  /\ c.interval \in 0..MaxInterval
  /\ times_two(c.interval) = c.interval + c.interval

\* Step 43200: a doubling of 86400 was cut back to 86400, with a relief call
\* in the run.
C6_Witness ==
  /\ step = 43200 /\ nrelief > 0
  /\ \E k \in 1..(Len(log) - 1) :
       /\ log[k].op = "complain" /\ log[k].interval = MaxInterval
       /\ log[k + 1].op = "complain" /\ log[k + 1].interval = MaxInterval

\* C7: a plugin_relief call on a state with interval # 0 writes one message
\* and sets interval to 0; on a state with interval = 0 it writes nothing
\* and changes no field; and as long as the last message written is a
\* complaint, interval # 0, so that the next relief call writes.
C7_Relief ==
  /\ [][nrelief' # nrelief =>
          IF c.interval # 0
          THEN /\ emitted'
               /\ log' = Append(log, [op |-> "relief", n |-> ncomplain + nrelief,
                                      interval |-> 0, delay |-> c.delay])
               /\ c'.interval = 0
          ELSE ~emitted' /\ log' = log /\ c' = c]_vars
  /\ []((log # <<>> /\ log[Len(log)].op = "complain") => c.interval # 0)

\* A relief call that wrote, followed by one that did not.
C7_Witness ==
  /\ op = "relief" /\ ~emitted /\ nrelief >= 2
  /\ log # <<>> /\ log[Len(log)].op = "relief"
  /\ log[Len(log)].n = ncomplain + nrelief - 2

\* C8: the plugin_complain call that directly follows a plugin_relief call
\* that wrote its message writes its message and sets interval to the step.
C8_ReliefClearsThrottle ==
  [][(/\ op = "relief" /\ emitted
      /\ step <= MaxInterval
      /\ ncomplain' # ncomplain)
     => (emitted' /\ c'.interval = step)]_vars

\* The invocations a full sweep of a phase registry makes, from the history
\* of registrations: one per name, in order of first registration, of the
\* callback registered last under the name.
FullSweep(reg) ==
  [i \in 1..Len(order[reg]) |->
     Call(latest[reg][order[reg][i]], "none", "none")]

\* C9: a read sweep entered with the flag set invokes no callback; while the
\* flag is set during a sweep no further callback is invoked (the one that
\* runs returns, the rest is skipped); a sweep that ends with the flag unset
\* has invoked every read callback once, in registry order, and a sweep in
\* progress has invoked a leading part of them.
C9_ReadSweepCancel ==
  /\ []((op = "read_all" /\ args.loop # 0) => calls = <<>>)
  /\ [][(pc # "idle" /\ loop # 0) => calls' = calls]_vars
  /\ []((op = "read_all" /\ pc = "idle" /\ loop = 0) => calls = FullSweep("read"))
  /\ [](op = "read_all" =>
          /\ Len(calls) <= Len(order["read"])
          /\ calls = SubSeq(FullSweep("read"), 1, Len(calls)))

\* A sweep over two read callbacks, entered with the flag unset, that ended
\* after the first callback because the flag was set while it ran.
C9_Witness ==
  /\ op = "read_all" /\ pc = "idle"
  /\ args.loop = 0 /\ loop # 0
  /\ Len(order["read"]) = 2
  /\ Len(calls) = 1

\* C10: plugin_init_all and plugin_shutdown_all invoke every callback of
\* their registry once, in registry order, whatever the callbacks return,
\* and nothing on a registry that was never populated.
C10_FullSweeps ==
  /\ op = "init_all" => calls = FullSweep("init")
  /\ op = "shutdown_all" => calls = FullSweep("shutdown")

\* An init sweep over two callbacks of which the first reports an error.
C10_Witness ==
  /\ op = "init_all"
  /\ Len(calls) = 2
  /\ Returns(calls[1].cb) # 0
  /\ list_shutdown.isnull

\* C11: with a writer and a schema for the type registered, a dispatch
\* returns success and has invoked as many callbacks as there are writers,
\* whatever the writers return: one for every writer behind a writer that
\* reported an error, too.
C11_WriterStatusIgnored ==
  (/\ op = "dispatch"
   /\ order["write"] # <<>>
   /\ latest["data_set"][args.name] # "none")
  => /\ ret = 0
     /\ Len(calls) = Len(order["write"])
     /\ \A i \in 1..Len(calls) :
          Returns(calls[i].cb) # 0 =>
            \A j \in (i + 1)..Len(order["write"]) :
              calls[j].cb = latest["write"][order["write"][j]]

\* A dispatch whose first writer reported an error and whose second writer
\* was invoked all the same.
C11_Witness ==
  /\ op = "dispatch" /\ ret = 0
  /\ Len(order["write"]) = 2
  /\ Len(calls) = 2
  /\ Returns(calls[1].cb) # 0
  /\ Returns(calls[2].cb) = 0

\* C12: a relief message is written only when a complaint was written since
\* the relief message before it (or since the start): the log never starts
\* with a relief message and never holds two of them in a row, and a relief
\* call that directly follows a relief call writes nothing.
C12_OneReliefPerEpisode ==
  /\ [](\A k \in 1..Len(log) :
          log[k].op = "relief" => (k > 1 /\ log[k - 1].op = "complain"))
  /\ [][(op = "relief" /\ nrelief' # nrelief) => (~emitted' /\ log' = log)]_vars

\* Two episodes, each closed by one relief message, and a further relief
\* call that wrote nothing.
C12_Witness ==
  /\ op = "relief" /\ ~emitted
  /\ Len(SelectSeq(log, LAMBDA m : m.op = "relief")) = 2

\* What belongs to one registry: its list and the history of its
\* registrations.
Registry(reg) == <<List(reg), order[reg], latest[reg]>>

\* C13: a register call touches one registry only: a step that changes the
\* list or the history of one registry leaves the lists and the histories of
\* the other four as they are.
C13_IndependentRegistries ==
  [][\/ lists' = lists /\ ghost' = ghost
     \/ \E r \in Registries :
          \A r2 \in Registries \ {r} : Registry(r2)' = Registry(r2)]_vars

\* One name present in two registries, with a callback of its own in each.
C13_Witness ==
  /\ op = "register" /\ ret = 0
  /\ Keys(list_init) = <<1>> /\ Values(list_init) = <<"cb_ok">>
  /\ Keys(list_read) = <<1>> /\ Values(list_read) = <<"cb_fail">>

\* C14: a register call for a name that is present with the very callback
\* it passes (as it is right after a successful registration of the pair)
\* returns success and changes no list and no history.
C14_Idempotent ==
  [][(op' = "register" /\ args'.same) =>
       (ret' = 0 /\ lists' = lists /\ ghost' = ghost)]_vars

\* The pair of the first of two entries registered again.
C14_Witness ==
  /\ op = "register" /\ args.same /\ ret = 0
  /\ Len(list_shutdown.entries) = 2

\* C16: a registration attempt that failed leaves no trace: a dispatch
\* returns, and invokes, what the successful registrations alone determine
\* (success and every registered writer if a writer and a schema for the
\* type were registered, failure and nothing otherwise).
C16_FailedRegistrationInert ==
  op = "dispatch" =>
    IF order["write"] # <<>> /\ latest["data_set"][args.name] # "none"
    THEN /\ ret = 0
         /\ calls = [i \in 1..Len(order["write"]) |->
                       Call(latest["write"][order["write"][i]],
                            latest["data_set"][args.name], args.vl)]
    ELSE ret = -1 /\ calls = <<>>

\* C17: a plugin_complain call entered with delay > 0 writes no message,
\* takes one off delay and leaves interval as it is; delay is never
\* negative when whole calls follow one another.
C17_Suppressed ==
  /\ [][(ncomplain' # ncomplain /\ c.delay > 0) =>
          /\ ~emitted' /\ log' = log
          /\ c' = [interval |-> c.interval, delay |-> c.delay - 1]]_vars
  /\ [](c.delay >= 0)

\* The second of two suppressed calls in a row, after a relief call.
C17_Witness ==
  /\ op = "complain" /\ ~emitted
  /\ nrelief > 0
  /\ c.delay = 0 /\ c.interval = 20
  /\ step = 10

\* C18: for a base step of at most 86400 delay never exceeds 86400 / step,
\* so at most 86400 / step plugin_complain calls in a row are suppressed,
\* whatever plugin_relief calls come in between; and when plugin_complain
\* is called again and again, it writes a message infinitely often.
C18_BoundedSuppression ==
  /\ [](step <= MaxInterval =>
         /\ c.delay <= MaxInterval \div step
         /\ quiet <= MaxInterval \div step)
  /\ []<>(op = "complain" /\ emitted)

\* The longest silence at step 1000, with a relief call inside it.
C18_Witness ==
  /\ op = "complain" /\ ~emitted
  /\ step = 1000 /\ quiet = MaxInterval \div 1000
  /\ c = [interval |-> 0, delay |-> 0]

\* The outcome of the pair of calls made one after the other.
Sequential ==
  LET first == plugin_complain(race.start, step)
      second == plugin_complain(first.c, step)
  IN [c |-> second.c,
      msgs |-> (IF first.emit THEN 1 ELSE 0) + (IF second.emit THEN 1 ELSE 0)]

PairDone == \A t \in Contexts : ctx[t].pc = "done"

WriteEvents == {"write_begin", "write_end"}
Returned == {"dispatch_done", "dispatch_failed"}

\* C19: in a read sweep every write callback of a dispatch begins and ends
\* between the dispatch's call and its return with nothing else in between
\* (a dispatch that returns 0 has run every writer once, in list order); when
\* the next read callback begins every earlier dispatch has returned; and
\* one writer receives the dispatches in the order they were made.
C19_SynchronousDelivery ==
  \A k \in 1..Len(trace) :
    LET e == trace[k]
        W == Len(list_write.entries)
    IN /\ e.ev \in WriteEvents =>
            \E a \in 1..(k - 1) :
              /\ trace[a].ev = "dispatch" /\ trace[a].n = e.n
              /\ \A j \in (a + 1)..(k - 1) :
                   trace[j].ev \in WriteEvents /\ trace[j].n = e.n
       /\ e.ev = "dispatch_done" =>
            /\ k - 1 - 2 * W >= 1
            /\ trace[k - 1 - 2 * W] = Event("dispatch", e.n, e.who)
            /\ \A i \in 1..W :
                 LET key == list_write.entries[i].key
                 IN /\ trace[k - 1 - 2 * W + 2 * i - 1]
                         = Event("write_begin", e.n, key)
                    /\ trace[k - 1 - 2 * W + 2 * i]
                         = Event("write_end", e.n, key)
       /\ e.ev = "read_begin" =>
            \A a \in 1..(k - 1) :
              trace[a].ev = "dispatch" =>
                \E b \in (a + 1)..(k - 1) :
                  trace[b].ev \in Returned /\ trace[b].n = trace[a].n
       /\ e.ev \in {"write_begin", "dispatch"} =>
            \A j \in 1..(k - 1) :
              (trace[j].ev = e.ev /\ (e.ev = "dispatch" \/ trace[j].who = e.who))
                => trace[j].n < e.n

\* A finished sweep in which two read callbacks each dispatched to two
\* writers.
C19_Witness ==
  /\ pc = "idle" /\ Len(list_write.entries) = 2
  /\ \E j, k \in 1..Len(trace) :
       /\ j < k
       /\ trace[j].ev = "dispatch_done" /\ trace[k].ev = "dispatch_done"
       /\ trace[j].who # trace[k].who

\* The file name in lower case.
Lower(str) == [i \in 1..Len(str) |-> tolower(str[i])]

\* The entry's name begins with the type followed by ".so", whatever the
\* case of the letters, and its path fits the buffer.
Matches(de, type) ==
  LET typename == type \o <<".", "s", "o">>
  IN /\ Len(de.name) >= Len(typename)
     /\ SubSeq(Lower(de.name), 1, Len(typename)) = Lower(typename)
     /\ plugindir.len + 1 + Len(de.name) < BUFSIZE

\* Entries plugin_load (type) tries to activate, and those among them that
\* are activated and expose module_register.
Candidates(type) ==
  {i \in 1..Len(plugindir.entries) :
     /\ Matches(plugindir.entries[i], type)
     /\ plugindir.entries[i].kind \in {"text", "bare", "module"}}
Loadable(type) ==
  {i \in Candidates(type) : plugindir.entries[i].kind = "module"}

Reachable(type) == Len(type) + 3 < BUFSIZE /\ plugindir.ok

\* C20: plugin_load hands the candidates to lt_dlopen in directory order up
\* to the first one that is opened and has module_register, calls that
\* entry point once and no other, and hands no later entry to lt_dlopen;
\* it returns 0 exactly if there is such a candidate (1 if there is none,
\* -1 if the directory or the type cannot be used).
C20_FirstLoadableWins ==
  op = "load" =>
    LET type == loaded.type
        good == IF Reachable(type) THEN Loadable(type) ELSE {}
        first == CHOOSE i \in good : \A j \in good : i <= j
        tried == IF ~Reachable(type) THEN {}
                 ELSE IF good = {} THEN Candidates(type)
                 ELSE {i \in Candidates(type) : i <= first}
    IN /\ (ret = 0) <=> (good # {})
       /\ ret = (IF good # {} THEN 0 ELSE IF Reachable(type) THEN 1 ELSE -1)
       /\ loaded.invoked = (IF good # {} THEN <<first>> ELSE <<>>)
       /\ Len(loaded.opened) = Cardinality(tried)
       /\ \A i \in 1..Len(loaded.opened) :
            /\ loaded.opened[i] \in tried
            /\ \A j \in 1..(i - 1) : loaded.opened[j] < loaded.opened[i]

\* Two loadable modules of the type: the first one is taken.
C20_Witness ==
  /\ op = "load" /\ ret = 0
  /\ loaded.type = <<"a">>
  /\ Loadable(<<"a">>) = {1, 2}
  /\ loaded.invoked = <<1>> /\ loaded.opened = <<1>>
====
